---- MODULE Spec2Model ----
(***************************************************************************)
(* LightBnB data-access layer: the six exported functions of               *)
(* LightBnB_WebApp/db/database.js (getUserWithEmail, getUserWithId,        *)
(* addUser, getAllProperties, addProperty, getAllReservations) running     *)
(* against a PostgreSQL database created from 01_schema.sql.               *)
(*                                                                         *)
(* A call of an exported function builds one statement, hands it to        *)
(* pool.query, and the promise it returns is settled by the .then or the   *)
(* .catch callback once the database has answered.  Calls are concurrent:  *)
(* each call slot is one promise chain.  The database executes one         *)
(* statement atomically and enforces the constraints of the DDL.           *)
(***************************************************************************)
EXTENDS Integers, Sequences, FiniteSets, TLC

\* ------------------------------------------------------------------ bounds
\* Concurrent promise chains (call slots).
MaxCalls == 2
\* Values each SERIAL sequence may hand out before the model stops inserting.
MaxUserId == 2
MaxPropId == 1
MaxResId == 1

\* database.js:82 and database.js:189, `limit = 10`.
DefaultLimit == 10

Slots == 1..MaxCalls
UserIds == 1..MaxUserId
PropIds == 1..MaxPropId
ResIds == 1..MaxResId
Emails == {"a@x", "b@x"}
Names == {"Ann"}
Passwords == {"pw"}
Cities == {"Van"}
Prices == {50}
Dates == 1..2

\* ------------------------------------------------------------- JS values
\* A JavaScript value as the functions receive it.  An absent option key
\* reads as undefined.
Undefined == [t |-> "undefined"]
Null == [t |-> "null"]
Num(n) == [t |-> "num", n |-> n]
Str(s) == [t |-> "str", s |-> s]

\* ToBoolean, as applied by `if (options.city)` and by `rows[0] || null`.
Truthy(v) ==
  CASE v.t = "num" -> v.n # 0
    [] v.t = "str" -> v.s # ""
    [] v.t = "like" -> TRUE
    [] v.t = "row" -> TRUE
    [] OTHER -> FALSE

\* node-postgres sends undefined and null as SQL NULL.
IsSqlNull(v) == v.t \in {"undefined", "null"}

\* `x * 100` on a number.
Times100(v) == Num(v.n * 100)

\* The template literal `%${options.city}%`.
LikePattern(v) == [t |-> "like", pat |-> <<"%", v.s, "%">>]

\* ---------------------------------------------------------------- schema
\* 01_schema.sql: the relations the DDL creates and their columns.
SchemaColumns ==
  [ users |-> {"id", "name", "email", "password", "created_at"},
    properties |-> {"id", "title", "description", "owner_id", "price_per_night",
                    "parking_spaces", "number_of_bathrooms", "number_of_bedrooms",
                    "country", "city", "street", "postal_code", "created_at"},
    reservations |-> {"id", "start_date", "end_date", "property_id", "guest_id",
                      "total_cost", "created_at"} ]

SchemaTables == DOMAIN SchemaColumns

\* price_per_night NUMERIC(10, 2): a decimal amount with two fraction digits,
\* i.e. currency units; an amount in cents would be a scale-0 integer.
PriceColumnScale == 2

\* Number of fraction digits of the amounts a statement sends for a price.
\* `* 100  // Convert to cents` yields whole cents: scale 0.
CentsScale == 0

\* ------------------------------------------------------------ statements
\* A statement as handed to pool.query: the relations and columns its text
\* names (unqualified columns resolved against the FROM list) and its
\* positional parameters.

\* database.js:20-26.
GetUserWithEmailStmt(email) ==
  [ kind |-> "select_user_by_email",
    tables |-> {"users"},
    columns |-> {<<"users", "email">>},
    params |-> <<email>> ]

\* database.js:40-46.
GetUserWithIdStmt(id) ==
  [ kind |-> "select_user_by_id",
    tables |-> {"users"},
    columns |-> {<<"users", "id">>},
    params |-> <<id>> ]

\* database.js:60-66.
AddUserStmt(user) ==
  [ kind |-> "insert_user",
    tables |-> {"users"},
    columns |-> {<<"users", "name">>, <<"users", "email">>, <<"users", "password">>},
    into |-> <<"name", "email", "password">>,
    params |-> <<user.name, user.email, user.password>> ]

\* Variant: a filter applied whenever its key is given (`!== undefined`).
PresentNotUndefined(v) == v.t # "undefined"

\* The test of `if (options.x)`: the filter is applied when the value is truthy.
Present(v) == Truthy(v)

\* queryParams.push(param); whereClauses.push(`<expr> <op> $${queryParams.length}`).
AddFilter(st, param, col, op, agg) ==
  LET ps == Append(st.queryParams, param)
  IN [ queryParams |-> ps,
       whereClauses |-> Append(st.whereClauses,
                               [col |-> col, op |-> op, ph |-> Len(ps), agg |-> agg]) ]

\* whereClauses.join(' AND ').
RECURSIVE JoinAnd(_)
JoinAnd(clauses) ==
  IF Len(clauses) = 0 THEN <<>>
  ELSE IF Len(clauses) = 1 THEN <<clauses[1]>>
  ELSE <<clauses[1], [kw |-> "AND"]>> \o JoinAnd(Tail(clauses))

\* Variant: queryParams.unshift(limit).
PrependLimit(queryParams, limit) == <<limit>> \o queryParams

\* queryParams.push(limit).
AppendLimit(queryParams, limit) == Append(queryParams, limit)

\* database.js:82-126: the statement getAllProperties builds.
BuildQuery(options, limit) ==
  LET s0 == [queryParams |-> <<>>, whereClauses |-> <<>>]
      s1 == IF Present(options.city)
            THEN AddFilter(s0, LikePattern(options.city),
                           <<"properties", "city">>, "LIKE", FALSE)
            ELSE s0
      s2 == IF Present(options.owner_id)
            THEN AddFilter(s1, options.owner_id,
                           <<"properties", "owner_id">>, "=", FALSE)
            ELSE s1
      s3 == IF Present(options.minimum_price_per_night)
            THEN AddFilter(s2, Times100(options.minimum_price_per_night),
                           <<"properties", "cost_per_night">>, ">=", FALSE)
            ELSE s2
      s4 == IF Present(options.maximum_price_per_night)
            THEN AddFilter(s3, Times100(options.maximum_price_per_night),
                           <<"properties", "cost_per_night">>, "<=", FALSE)
            ELSE s3
      s5 == IF Present(options.minimum_rating)
            THEN AddFilter(s4, options.minimum_rating,
                           <<"property_reviews", "rating">>, ">=", TRUE)
            ELSE s4
      params == AppendLimit(s5.queryParams, limit)
  IN [ kind |-> "select_properties",
       tables |-> {"properties", "property_reviews"},
       columns |-> {<<"properties", "id">>, <<"property_reviews", "property_id">>,
                    <<"property_reviews", "rating">>,
                    <<"properties", "cost_per_night">>}
                   \cup {s5.whereClauses[i].col : i \in 1..Len(s5.whereClauses)},
       hasWhere |-> Len(s5.whereClauses) > 0,
       whereClauses |-> s5.whereClauses,
       where |-> JoinAnd(s5.whereClauses),
       priceColumn |-> "cost_per_night",
       priceScale |-> CentsScale,
       limitPh |-> Len(params),
       params |-> params ]

\* database.js:143-173.
AddPropertyStmt(property) ==
  [ kind |-> "insert_property",
    tables |-> {"properties"},
    into |-> <<"owner_id", "title", "description", "thumbnail_photo_url",
               "cover_photo_url", "cost_per_night", "street", "city", "province",
               "post_code", "country", "parking_spaces", "number_of_bathrooms",
               "number_of_bedrooms">>,
    columns |-> {<<"properties", c>> :
                   c \in {"owner_id", "title", "description", "thumbnail_photo_url",
                          "cover_photo_url", "cost_per_night", "street", "city",
                          "province", "post_code", "country", "parking_spaces",
                          "number_of_bathrooms", "number_of_bedrooms"}},
    priceColumn |-> "cost_per_night",
    priceScale |-> CentsScale,
    params |-> <<property.owner_id, property.title, property.description,
                 property.thumbnail_photo_url, property.cover_photo_url,
                 Times100(property.cost_per_night), property.street, property.city,
                 property.province, property.post_code, property.country,
                 property.parking_spaces, property.number_of_bathrooms,
                 property.number_of_bedrooms>> ]

\* Variant: database.js:189-201 with the WHERE clause and the
\* property_reviews join left out.
GetAllReservationsStmtNoFilter(guest_id, limit) ==
  [ kind |-> "select_reservations",
    tables |-> {"reservations", "properties"},
    columns |-> {<<"reservations", "property_id">>, <<"properties", "id">>,
                 <<"reservations", "id">>, <<"reservations", "start_date">>},
    whereGuest |-> FALSE,
    params |-> <<guest_id, limit>> ]

\* database.js:189-201.
GetAllReservationsStmt(guest_id, limit) ==
  [ kind |-> "select_reservations",
    tables |-> {"reservations", "properties", "property_reviews"},
    columns |-> {<<"reservations", "property_id">>, <<"properties", "id">>,
                 <<"property_reviews", "property_id">>,
                 <<"property_reviews", "rating">>,
                 <<"reservations", "guest_id">>, <<"reservations", "id">>,
                 <<"reservations", "start_date">>},
    whereGuest |-> TRUE,
    params |-> <<guest_id, limit>> ]

\* -------------------------------------------------------------- database
VARIABLES
  users,          \* rows of users: [id, name, email, password]
  properties,     \* rows of properties: [id, owner_id, price_per_night, city]
  reservations,   \* rows of reservations: [id, start_date, property_id, guest_id]
  userSeq,        \* next value of users_id_seq
  propSeq,        \* next value of properties_id_seq
  resSeq,         \* next value of reservations_id_seq
  calls           \* the promise chain of each call slot

vars == <<users, properties, reservations, userSeq, propSeq, resSeq, calls>>
db == <<users, properties, reservations, userSeq, propSeq, resSeq>>

\* Columns that take part in no constraint and no predicate of any statement
\* (title, description, address fields, end_date, total_cost, created_at)
\* are carried in the statements' column lists but not in the rows.

\* The parameter a statement binds to column col of its INSERT list
\* (SQL NULL when the column is not listed and has no default).
RECURSIVE IndexOf(_, _, _)
IndexOf(seq, x, i) ==
  IF i > Len(seq) THEN 0 ELSE IF seq[i] = x THEN i ELSE IndexOf(seq, x, i + 1)

Bound(stmt, col) ==
  LET i == IndexOf(stmt.into, col, 1)
  IN IF i = 0 THEN Null ELSE stmt.params[i]

\* 42P01 undefined_table / 42703 undefined_column, raised at parse analysis.
UndefinedTable(stmt) == \E t \in stmt.tables : t \notin SchemaTables

UndefinedColumn(stmt) ==
  \E tc \in stmt.columns : tc[1] \in SchemaTables /\ tc[2] \notin SchemaColumns[tc[1]]

\* 42803 grouping_error: an aggregate in WHERE.
AggregateInWhere(stmt) ==
  /\ stmt.kind = "select_properties"
  /\ \E i \in 1..Len(stmt.whereClauses) : stmt.whereClauses[i].agg

ParseError(stmt) ==
  IF UndefinedTable(stmt) THEN "undefined_table"
  ELSE IF UndefinedColumn(stmt) THEN "undefined_column"
  ELSE IF AggregateInWhere(stmt) THEN "grouping_error"
  ELSE "none"

\* Variant: the email column without UNIQUE.
EmailNeverTaken(email) == FALSE

\* 01_schema.sql:10, email ... UNIQUE.
EmailTaken(email) == \E u \in users : u.email = email

\* 01_schema.sql:20 and :38, REFERENCES users(id).
UserExists(id) == \E u \in users : u.id = id

\* 01_schema.sql:37, REFERENCES properties(id).
PropertyExists(id) == \E p \in properties : p.id = id

\* All orders of a finite set of rows.
RECURSIVE Perms(_)
Perms(S) ==
  IF S = {} THEN {<<>>}
  ELSE UNION {{<<x>> \o q : q \in Perms(S \ {x})} : x \in S}

Take(seq, n) == SubSeq(seq, 1, IF n < Len(seq) THEN n ELSE Len(seq))

\* The row object node-postgres builds for `SELECT *` on users.
UserObject(u) ==
  [t |-> "row", id |-> u.id, name |-> u.name, email |-> u.email,
   password |-> u.password]

\* The row object for `SELECT properties.*, AVG(...) as average_rating`.
PropertyObject(p) ==
  [t |-> "row", id |-> p.id, owner_id |-> p.owner_id,
   price_per_night |-> p.price_per_night, city |-> p.city,
   average_rating |-> Null]

\* The row object for `SELECT reservations.*, properties.*, AVG(...)`: one
\* object per row, a later column of the same name overwriting an earlier
\* one, so `id` is properties.id.
ReservationObject(r, p) ==
  [t |-> "row", id |-> p.id, start_date |-> r.start_date,
   property_id |-> r.property_id, guest_id |-> r.guest_id,
   owner_id |-> p.owner_id, price_per_night |-> p.price_per_night,
   city |-> p.city, average_rating |-> Null]

Unchanged(err, rows) ==
  [err |-> err, rows |-> rows, users |-> users, userSeq |-> userSeq,
   properties |-> properties, propSeq |-> propSeq,
   reservations |-> reservations, resSeq |-> resSeq]

\* INSERT INTO users ... RETURNING *  (01_schema.sql:7-13).
InsertUser(stmt) ==
  LET name == Bound(stmt, "name")
      email == Bound(stmt, "email")
      password == Bound(stmt, "password")
      burnt == [Unchanged("none", <<>>) EXCEPT !.userSeq = userSeq + 1]
      row == [id |-> userSeq, name |-> name.s, email |-> email.s,
              password |-> password.s]
  IN IF IsSqlNull(name) \/ IsSqlNull(email) \/ IsSqlNull(password)
     THEN {[burnt EXCEPT !.err = "not_null_violation"]}
     ELSE IF EmailTaken(email.s)
     THEN {[burnt EXCEPT !.err = "unique_violation"]}
     ELSE {[burnt EXCEPT !.users = users \cup {row}, !.rows = <<UserObject(row)>>]}

\* INSERT INTO properties ... RETURNING *  (01_schema.sql:16-30).
InsertProperty(stmt) ==
  LET owner == Bound(stmt, "owner_id")
      price == Bound(stmt, "price_per_night")
      city == Bound(stmt, "city")
      burnt == [Unchanged("none", <<>>) EXCEPT !.propSeq = propSeq + 1]
      row == [id |-> propSeq, owner_id |-> owner.n, price_per_night |-> price.n,
              city |-> city.s]
  IN IF \E c \in {"title", "description", "owner_id", "price_per_night",
                  "country", "city", "street", "postal_code"} :
          IsSqlNull(Bound(stmt, c))
     THEN {[burnt EXCEPT !.err = "not_null_violation"]}
     ELSE IF ~UserExists(owner.n)
     THEN {[burnt EXCEPT !.err = "foreign_key_violation"]}
     ELSE {[burnt EXCEPT !.properties = properties \cup {row},
                         !.rows = <<PropertyObject(row)>>]}

\* SELECT * FROM users WHERE email = $1 / WHERE id = $1.
SelectUsers(stmt) ==
  LET hit == IF stmt.kind = "select_user_by_email"
             THEN {u \in users : u.email = stmt.params[1].s}
             ELSE {u \in users : u.id = stmt.params[1].n}
  IN {Unchanged("none", [i \in 1..Len(q) |-> UserObject(q[i])]) : q \in Perms(hit)}

\* One WHERE predicate of getAllProperties on a properties row (LIKE '%x%'
\* on the city names of the model: the name is x).
Satisfies(p, clause, param) ==
  CASE clause.col[2] = "city" -> p.city = param.pat[2]
    [] clause.col[2] = "owner_id" -> p.owner_id = param.n
    [] clause.op = ">=" -> p.price_per_night >= param.n
    [] clause.op = "<=" -> p.price_per_night <= param.n

\* SELECT properties.* ... [WHERE ...] GROUP BY properties.id
\* ORDER BY <price> LIMIT $n.
SelectProperties(stmt) ==
  LET hit == {p \in properties :
                \A i \in 1..Len(stmt.whereClauses) :
                  Satisfies(p, stmt.whereClauses[i],
                            stmt.params[stmt.whereClauses[i].ph])}
      lim == stmt.params[stmt.limitPh].n
      sorted == {q \in Perms(hit) :
                   \A i, j \in 1..Len(q) :
                     i < j => q[i].price_per_night <= q[j].price_per_night}
  IN {Unchanged("none", [i \in 1..Len(Take(q, lim)) |-> PropertyObject(q[i])]) :
        q \in sorted}

\* SELECT reservations.*, properties.* ... JOIN properties ...
\* [WHERE reservations.guest_id = $1] GROUP BY reservations.id, properties.id
\* ORDER BY reservations.start_date LIMIT $2.
SelectReservations(stmt) ==
  LET hit == {rp \in reservations \X properties :
                /\ rp[1].property_id = rp[2].id
                /\ stmt.whereGuest => rp[1].guest_id = stmt.params[1].n}
      lim == stmt.params[2].n
      sorted == {q \in Perms(hit) :
                   \A i, j \in 1..Len(q) :
                     i < j => q[i][1].start_date <= q[j][1].start_date}
  IN {Unchanged("none",
                [i \in 1..Len(Take(q, lim)) |-> ReservationObject(q[i][1], q[i][2])]) :
        q \in sorted}

\* What the server answers to a statement: the error code or the rows, and
\* the database after it.  A statement that fails parse analysis changes
\* nothing; a failed INSERT has still drawn its id from the sequence.
Execute(stmt) ==
  IF ParseError(stmt) # "none" THEN {Unchanged(ParseError(stmt), <<>>)}
  ELSE CASE stmt.kind = "insert_user" -> InsertUser(stmt)
         [] stmt.kind = "insert_property" -> InsertProperty(stmt)
         [] stmt.kind \in {"select_user_by_email", "select_user_by_id"} ->
              SelectUsers(stmt)
         [] stmt.kind = "select_properties" -> SelectProperties(stmt)
         [] stmt.kind = "select_reservations" -> SelectReservations(stmt)

\* --------------------------------------------------------- promise chains
SingleRow == {"getUserWithEmail", "getUserWithId", "addUser", "addProperty"}
Collection == {"getAllProperties", "getAllReservations"}

Idle ==
  [fn |-> "none", arg |-> Undefined, stmt |-> [kind |-> "none"], pc |-> "idle",
   err |-> "none", result |-> Undefined, queries |-> 0, logged |-> 0]

Array(rows) == [t |-> "array", rows |-> rows]

\* Variant: the callbacks reading rows[1] instead of rows[0].
ThenSecondRow(fn, rows) ==
  CASE fn \in {"getUserWithEmail", "getUserWithId"} ->
         IF Len(rows) > 1 /\ Truthy(rows[2]) THEN rows[2] ELSE Null
    [] fn \in {"addUser", "addProperty"} ->
         IF Len(rows) > 1 THEN rows[2] ELSE Undefined
    [] fn \in Collection -> Array(rows)

\* The .then callbacks: `result.rows[0] || null` (database.js:27, :47),
\* `result.rows[0]` (:69, :176), `res.rows` (:131, :204).
Then(fn, rows) ==
  CASE fn \in {"getUserWithEmail", "getUserWithId"} ->
         IF Len(rows) > 0 /\ Truthy(rows[1]) THEN rows[1] ELSE Null
    [] fn \in {"addUser", "addProperty"} ->
         IF Len(rows) > 0 THEN rows[1] ELSE Undefined
    [] fn \in Collection -> Array(rows)

\* Variant: every .catch callback returning null.
CatchNull(fn) == Null

\* The .catch callbacks: console.error(...); return null / return [].
Catch(fn) == IF fn \in Collection THEN Array(<<>>) ELSE Null

\* A parameter default applies when the argument is undefined.
EffectiveLimit(limit) == IF limit.t = "undefined" THEN Num(DefaultLimit) ELSE limit

\* The synchronous part of an exported function: build the statement and
\* call pool.query once.
Call(c, fn, arg, stmt) ==
  /\ calls[c].pc = "idle"
  /\ calls' = [calls EXCEPT ![c] =
                 [fn |-> fn, arg |-> arg, stmt |-> stmt, pc |-> "pending",
                  err |-> "none", result |-> Undefined, queries |-> 1,
                  logged |-> 0]]
  /\ UNCHANGED db

getUserWithEmail(c, email) ==
  Call(c, "getUserWithEmail", email, GetUserWithEmailStmt(email))

getUserWithId(c, id) ==
  Call(c, "getUserWithId", id, GetUserWithIdStmt(id))

\* (The model stops signing up once the ids in use and those the pending
\* INSERTs will draw reach MaxUserId.)
addUser(c, user) ==
  /\ userSeq + Cardinality({d \in Slots : calls[d].fn = "addUser"
                                           /\ calls[d].pc = "pending"})
       <= MaxUserId
  /\ Call(c, "addUser", user, AddUserStmt(user))

getAllProperties(c, options, limit) ==
  Call(c, "getAllProperties", [options |-> options, limit |-> limit],
       BuildQuery(options, EffectiveLimit(limit)))

addProperty(c, property) ==
  /\ propSeq <= MaxPropId
  /\ Call(c, "addProperty", property, AddPropertyStmt(property))

getAllReservations(c, guest_id, limit) ==
  Call(c, "getAllReservations", [guest_id |-> guest_id, limit |-> limit],
       GetAllReservationsStmt(guest_id, EffectiveLimit(limit)))

\* The promise of pool.query settles and the callback attached to it runs.
Settle(call, err, rows) ==
  IF err = "none"
  THEN [call EXCEPT !.pc = "fulfilled", !.result = Then(call.fn, rows)]
  ELSE [call EXCEPT !.pc = "fulfilled", !.err = err, !.result = Catch(call.fn),
                    !.logged = @ + 1]

\* The server executes the statement of call c and answers.
PoolQueryAnswers(c) ==
  /\ calls[c].pc = "pending"
  /\ \E out \in Execute(calls[c].stmt) :
       /\ users' = out.users
       /\ userSeq' = out.userSeq
       /\ properties' = out.properties
       /\ propSeq' = out.propSeq
       /\ reservations' = out.reservations
       /\ resSeq' = out.resSeq
       /\ calls' = [calls EXCEPT ![c] = Settle(calls[c], out.err, out.rows)]

\* pool.query rejects without the statement having run (no connection,
\* timeout): the statement has no effect.
PoolQueryFails(c) ==
  /\ calls[c].pc = "pending"
  /\ calls' = [calls EXCEPT ![c] = Settle(calls[c], "connection_error", <<>>)]
  /\ UNCHANGED db

\* pool.query rejects although the server has executed the statement: the
\* connection broke before the answer arrived.
PoolQueryAnswerLost(c) ==
  /\ calls[c].pc = "pending"
  /\ \E out \in Execute(calls[c].stmt) :
       /\ users' = out.users
       /\ userSeq' = out.userSeq
       /\ properties' = out.properties
       /\ propSeq' = out.propSeq
       /\ reservations' = out.reservations
       /\ resSeq' = out.resSeq
       /\ calls' = [calls EXCEPT ![c] = Settle(calls[c], "connection_error", <<>>)]

\* The caller takes the value of the promise; the slot is free again.
Return(c) ==
  /\ calls[c].pc = "fulfilled"
  /\ calls' = [calls EXCEPT ![c] = Idle]
  /\ UNCHANGED db

\* ------------------------------------------------- other SQL on the schema
\* Rows of properties and reservations reach the database through SQL run
\* against the schema directly (seeds, psql); so do deletions.

SqlInsertPropertyStmt(owner_id, price, city) ==
  [ kind |-> "insert_property",
    tables |-> {"properties"},
    into |-> <<"title", "description", "owner_id", "price_per_night", "country",
               "city", "street", "postal_code">>,
    columns |-> {<<"properties", c>> :
                   c \in {"title", "description", "owner_id", "price_per_night",
                          "country", "city", "street", "postal_code"}},
    params |-> <<Str("t"), Str("d"), Num(owner_id), Num(price), Str("c"),
                 Str(city), Str("s"), Str("p")>> ]

SqlInsertProperty(owner_id, price, city) ==
  /\ propSeq <= MaxPropId
  /\ \E out \in Execute(SqlInsertPropertyStmt(owner_id, price, city)) :
       /\ properties' = out.properties
       /\ propSeq' = out.propSeq
  /\ UNCHANGED <<users, userSeq, reservations, resSeq, calls>>

\* INSERT INTO reservations (start_date, end_date, property_id, guest_id,
\* total_cost)  (01_schema.sql:33-41).
SqlInsertReservation(start_date, property_id, guest_id) ==
  /\ resSeq <= MaxResId
  /\ resSeq' = resSeq + 1
  /\ reservations' =
       IF PropertyExists(property_id) /\ UserExists(guest_id)
       THEN reservations \cup {[id |-> resSeq, start_date |-> start_date,
                                property_id |-> property_id,
                                guest_id |-> guest_id]}
       ELSE reservations
  /\ UNCHANGED <<users, userSeq, properties, propSeq, calls>>

\* ON DELETE CASCADE of properties.owner_id (01_schema.sql:20).
PropertiesAfterUserDelete(id) == {p \in properties : p.owner_id # id}

\* Variant: reservations.property_id without ON DELETE CASCADE.
GuestCascadeOnly(id, gone) == {r \in reservations : r.guest_id # id}

\* ON DELETE CASCADE of reservations.property_id and reservations.guest_id
\* (01_schema.sql:37-38): gone are the property ids in `gone`, and user `id`.
ReservationsAfterDelete(id, gone) ==
  {r \in reservations : r.guest_id # id /\ r.property_id \notin gone}

\* DELETE FROM users WHERE id = $1.
SqlDeleteUser(id) ==
  /\ UserExists(id)
  /\ users' = {u \in users : u.id # id}
  /\ properties' = PropertiesAfterUserDelete(id)
  /\ reservations' =
       ReservationsAfterDelete(id, {p.id : p \in properties \ PropertiesAfterUserDelete(id)})
  /\ UNCHANGED <<userSeq, propSeq, resSeq, calls>>

\* DELETE FROM properties WHERE id = $1.
SqlDeleteProperty(id) ==
  /\ PropertyExists(id)
  /\ properties' = {p \in properties : p.id # id}
  /\ reservations' = ReservationsAfterDelete(0, {id})   \* no user goes: ids start at 1
  /\ UNCHANGED <<users, userSeq, propSeq, resSeq, calls>>

\* ---------------------------------------------------------- specification
Users == [name : {Str(n) : n \in Names} \cup {Undefined},
          email : {Str(e) : e \in Emails},
          password : {Str(p) : p \in Passwords}]

\* Sign-ups that carry every field.
CompleteUsers == {u \in Users : u.name.t = "str"}

NewProperties ==
  [owner_id : {Num(i) : i \in UserIds}, title : {Str("t")},
   description : {Str("d")}, thumbnail_photo_url : {Str("u")},
   cover_photo_url : {Str("u")}, cost_per_night : {Num(p) : p \in Prices},
   street : {Str("s")}, city : {Str(c) : c \in Cities}, province : {Str("p")},
   post_code : {Str("z")}, country : {Str("c")}, parking_spaces : {Num(1)},
   number_of_bathrooms : {Num(1)}, number_of_bedrooms : {Num(1)}]

NoOptions ==
  [city |-> Undefined, owner_id |-> Undefined,
   minimum_price_per_night |-> Undefined,
   maximum_price_per_night |-> Undefined, minimum_rating |-> Undefined]

\* Searches of the running system: no filter, or a price range.
PriceSearches ==
  {NoOptions,
   [NoOptions EXCEPT !.minimum_price_per_night = Num(1),
                     !.maximum_price_per_night = Num(100)]}

Limits == {Undefined, Num(1)}

Init ==
  /\ users = {}
  /\ properties = {}
  /\ reservations = {}
  /\ userSeq = 1
  /\ propSeq = 1
  /\ resSeq = 1
  /\ calls = [c \in Slots |-> Idle]

\* The whole program, one caller at a time: a caller awaits each promise
\* before its next call, while other SQL runs against the database at any
\* moment.
Caller == {1}

Next ==
  \/ \E c \in Caller, e \in Emails : getUserWithEmail(c, Str(e))
  \/ \E c \in Caller, i \in UserIds : getUserWithId(c, Num(i))
  \/ \E c \in Caller, u \in Users : addUser(c, u)
  \/ \E c \in Caller, o \in PriceSearches : getAllProperties(c, o, Undefined)
  \/ \E c \in Caller, p \in NewProperties : addProperty(c, p)
  \/ \E c \in Caller, g \in UserIds, l \in Limits : getAllReservations(c, Num(g), l)
  \/ \E c \in Caller : PoolQueryAnswers(c)
  \/ \E c \in Caller : PoolQueryFails(c)
  \/ \E c \in Caller : PoolQueryAnswerLost(c)
  \/ \E c \in Caller : Return(c)
  \/ \E o \in UserIds, p \in Prices, ci \in Cities : SqlInsertProperty(o, p, ci)
  \/ \E d \in Dates, p \in PropIds, g \in UserIds : SqlInsertReservation(d, p, g)
  \/ \E i \in UserIds : SqlDeleteUser(i)
  \/ \E i \in PropIds : SqlDeleteProperty(i)

Spec == Init /\ [][Next]_vars

\* The user functions called concurrently (several requests in flight, and
\* both copies of the module, database.js and LightBnB_WebApp/db/database.js,
\* against one database).
NextUsers ==
  \/ \E c \in Slots, e \in Emails : getUserWithEmail(c, Str(e))
  \/ \E c \in Slots, i \in UserIds : getUserWithId(c, Num(i))
  \/ \E c \in Slots, u \in CompleteUsers : addUser(c, u)
  \/ \E c \in Slots : PoolQueryAnswers(c)
  \/ \E c \in Slots : PoolQueryFails(c)
  \/ \E c \in Slots : PoolQueryAnswerLost(c)
  \/ \E c \in Slots : Return(c)
  \/ \E i \in UserIds : SqlDeleteUser(i)

SpecUsers == Init /\ [][NextUsers]_vars

\* The statement builder of getAllProperties on every sparse option object:
\* each option absent, null, 0, '' or a usable value.
OptionValues(usable) == {Undefined, Null, Num(0), Str(""), usable}

AllOptions ==
  [city : OptionValues(Str("Van")),
   owner_id : OptionValues(Num(1)),
   minimum_price_per_night : OptionValues(Num(1)),
   maximum_price_per_night : OptionValues(Num(2)),
   minimum_rating : OptionValues(Num(4))]

NextBuild ==
  \/ \E c \in Caller, o \in AllOptions, l \in Limits : getAllProperties(c, o, l)
  \/ \E c \in Caller : PoolQueryAnswers(c)
  \/ \E c \in Caller : PoolQueryFails(c)
  \/ \E c \in Caller : PoolQueryAnswerLost(c)
  \/ \E c \in Caller : Return(c)

SpecBuild == Init /\ [][NextBuild]_vars

\* ----------------------------------------------------------------- claims
OptionKeys ==
  {"city", "owner_id", "minimum_price_per_night", "maximum_price_per_night",
   "minimum_rating"}

\* The filters of an option object that carry a usable (truthy) value.
FiltersPresent(options) == {k \in OptionKeys : Truthy(options[k])}

Searching(c) == calls[c].fn = "getAllProperties"

\* C1: with k filters present the statement getAllProperties builds has
\* exactly k predicates, joined by AND, and k+1 parameters of which the last
\* is limit (10 when omitted); with no filter there is no WHERE clause and
\* the parameters are [limit].
C1_FilterAssembly ==
  \A c \in Slots :
    Searching(c) =>
      LET q == calls[c].stmt
          k == Cardinality(FiltersPresent(calls[c].arg.options))
          lim == IF calls[c].arg.limit.t = "undefined" THEN Num(10)
                 ELSE calls[c].arg.limit
      IN /\ Len(q.params) = k + 1
         /\ Len(q.whereClauses) = k
         /\ q.params[Len(q.params)] = lim
         /\ q.hasWhere <=> k > 0
         /\ k > 0 => /\ Len(q.where) = 2 * k - 1
                     /\ \A i \in 1..Len(q.where) :
                          IF i % 2 = 1 THEN q.where[i] = q.whereClauses[(i + 1) \div 2]
                          ELSE q.where[i] = [kw |-> "AND"]
         /\ k = 0 => q.where = <<>> /\ q.params = <<lim>>

C1_Witness ==
  \E c \in Slots :
    /\ Searching(c)
    /\ Cardinality(FiltersPresent(calls[c].arg.options)) = 5
    /\ Len(calls[c].stmt.params) = 6

\* The parameter a filter is meant to bind.
FilterValue(options, clause) ==
  CASE clause.col[2] = "city" -> [t |-> "like", pat |-> <<"%", options.city.s, "%">>]
    [] clause.col[2] = "owner_id" -> options.owner_id
    [] clause.col[2] = "cost_per_night" /\ clause.op = ">=" ->
         Num(options.minimum_price_per_night.n * 100)
    [] clause.col[2] = "cost_per_night" /\ clause.op = "<=" ->
         Num(options.maximum_price_per_night.n * 100)
    [] clause.col[2] = "rating" -> options.minimum_rating

\* C2: the statement getAllProperties builds is a valid parameterized
\* statement: its placeholders are exactly $1..$n, n the number of
\* parameters, each used once; each predicate's placeholder indexes the
\* parameter of its own filter and LIMIT's indexes limit; and the WHERE
\* clause holds only row-level predicates, no aggregate.
C2_ValidWhere ==
  \A c \in Slots :
    Searching(c) =>
      LET q == calls[c].stmt
          n == Len(q.params)
          w == q.whereClauses
      IN /\ {w[i].ph : i \in 1..Len(w)} \cup {q.limitPh} = 1..n
         /\ Len(w) + 1 = n
         /\ \A i \in 1..Len(w) :
              q.params[w[i].ph] = FilterValue(calls[c].arg.options, w[i])
         /\ q.params[q.limitPh] = EffectiveLimit(calls[c].arg.limit)
         /\ \A i \in 1..Len(w) : ~w[i].agg

\* An option object with every key of a falsy value left out.
OmitFalsy(options) ==
  [k \in OptionKeys |-> IF Truthy(options[k]) THEN options[k] ELSE Undefined]

\* The column and operator of the predicate each filter contributes.
FilterPredicate ==
  [city |-> <<"city", "LIKE">>, owner_id |-> <<"owner_id", "=">>,
   minimum_price_per_night |-> <<"cost_per_night", ">=">>,
   maximum_price_per_night |-> <<"cost_per_night", "<=">>,
   minimum_rating |-> <<"rating", ">=">>]

\* C10: an option whose value is 0, '', null or undefined contributes no
\* predicate and no parameter: the statement and its parameters are those
\* built with that key left out.
C10_FalsyIsAbsent ==
  \A c \in Slots :
    Searching(c) =>
      LET q == calls[c].stmt
          o == calls[c].arg.options
      IN /\ q = BuildQuery(OmitFalsy(o), EffectiveLimit(calls[c].arg.limit))
         /\ \A k \in OptionKeys :
              ~Truthy(o[k]) =>
                \A i \in 1..Len(q.whereClauses) :
                  <<q.whereClauses[i].col[2], q.whereClauses[i].op>> # FilterPredicate[k]
         /\ Len(q.params) = 1 + Cardinality({k \in OptionKeys : Truthy(o[k])})

C10_Witness ==
  \E c \in Slots :
    /\ Searching(c)
    /\ calls[c].arg.options.minimum_price_per_night = Num(0)
    /\ calls[c].arg.options.minimum_rating = Num(0)
    /\ calls[c].arg.options.owner_id = Num(0)
    /\ calls[c].arg.options.city = Str("")
    /\ calls[c].arg.options.maximum_price_per_night = Num(2)
    /\ Len(calls[c].stmt.params) = 2

\* Call c's pool.query promise settles in this step.
Settling(c) == calls[c].pc = "pending" /\ calls'[c].pc = "fulfilled"

\* C3: when pool.query rejects, the promise an exported function returned
\* is fulfilled, never rejected: with null by getUserWithEmail,
\* getUserWithId, addUser and addProperty, with an empty array by
\* getAllProperties and getAllReservations; the error is logged once and
\* pool.query has been called once, not again.
C3_RejectionSentinel ==
  \A c \in Slots :
    /\ calls[c].pc \in {"idle", "pending", "fulfilled"}
    /\ calls[c].queries <= 1
    /\ calls[c].pc = "pending" => calls[c].logged = 0
    /\ (calls[c].pc = "fulfilled" /\ calls[c].err # "none") =>
         /\ calls[c].fn \in {"getUserWithEmail", "getUserWithId", "addUser",
                             "addProperty"} =>
              calls[c].result = [t |-> "null"]
         /\ calls[c].fn \in {"getAllProperties", "getAllReservations"} =>
              calls[c].result = [t |-> "array", rows |-> <<>>]
         /\ calls[c].logged = 1
         /\ calls[c].queries = 1
    /\ (calls[c].pc = "fulfilled" /\ calls[c].err = "none") => calls[c].logged = 0

C3_Witness ==
  \E c \in Slots :
    /\ calls[c].fn = "getAllReservations"
    /\ calls[c].pc = "fulfilled"
    /\ calls[c].err = "connection_error"
    /\ calls[c].result = [t |-> "array", rows |-> <<>>]

UniqueEmails == \A u, v \in users : u.email = v.email => u = v

\* C4: the users table never holds two rows with the same email, however
\* addUser calls interleave; an addUser whose email is already in the table
\* is fulfilled with null and leaves the table as it was.
C4_UniqueEmail ==
  /\ UniqueEmails
  /\ [][ /\ UniqueEmails'
         /\ \A c \in Slots :
              ( /\ Settling(c)
                /\ calls[c].fn = "addUser"
                /\ \E u \in users : u.email = calls[c].arg.email.s ) =>
                /\ calls'[c].result = [t |-> "null"]
                /\ users' = users ]_vars

\* Two addUser calls with one email, both in flight at once; one has got the
\* row and the other the unique violation.
C4_Witness ==
  \E c, d \in Slots :
    /\ c # d
    /\ calls[c].fn = "addUser" /\ calls[d].fn = "addUser"
    /\ calls[c].arg.email = calls[d].arg.email
    /\ calls[c].pc = "fulfilled" /\ calls[c].result.t = "row"
    /\ calls[d].pc = "fulfilled" /\ calls[d].err = "unique_violation"
    /\ calls[d].result = [t |-> "null"]
    /\ Cardinality(users) = 1

ReferentialIntegrity ==
  /\ \A p \in properties : \E u \in users : u.id = p.owner_id
  /\ \A r \in reservations :
       /\ \E p \in properties : p.id = r.property_id
       /\ \E u \in users : u.id = r.guest_id

\* C5: every property's owner and every reservation's property and guest
\* exist, in every state.  Deleting a user removes exactly that user, the
\* properties the user owns, the reservations the user made and the
\* reservations of those properties; deleting a property removes exactly that
\* property and its reservations.
C5_ReferentialIntegrity ==
  /\ ReferentialIntegrity
  /\ [][ /\ ReferentialIntegrity'
         /\ \A u \in users :
              u \notin users' =>
                /\ users' = users \ {u}
                /\ properties' = {p \in properties : p.owner_id # u.id}
                /\ reservations' =
                     {r \in reservations :
                        /\ r.guest_id # u.id
                        /\ \A p \in properties :
                             p.id = r.property_id => p.owner_id # u.id}
         /\ \A p \in properties :
              (p \notin properties' /\ users' = users) =>
                /\ properties' = properties \ {p}
                /\ reservations' = {r \in reservations : r.property_id # p.id} ]_vars

\* A reservation by one user of a property another user owns.
C5_Witness ==
  \E r \in reservations, p \in properties :
    /\ r.property_id = p.id
    /\ r.guest_id # p.owner_id
    /\ Cardinality(users) = 2

AddingOrSearching(c) == calls[c].fn \in {"addProperty", "getAllProperties"}

\* C6: addProperty and getAllProperties use one price column and one unit,
\* and they are the price column and the unit the schema declares; so an
\* addProperty for an existing owner that the server answers stores the
\* property, where a search will find it.
C6_OnePriceRepresentation ==
  \A c \in Slots :
    /\ AddingOrSearching(c) =>
         /\ \A d \in Slots :
              AddingOrSearching(d) =>
                /\ calls[d].stmt.priceColumn = calls[c].stmt.priceColumn
                /\ calls[d].stmt.priceScale = calls[c].stmt.priceScale
         /\ calls[c].stmt.priceColumn \in SchemaColumns.properties
         /\ calls[c].stmt.priceScale = PriceColumnScale
    /\ ( /\ calls[c].fn = "addProperty"
         /\ calls[c].pc = "fulfilled"
         /\ calls[c].err \notin {"connection_error", "foreign_key_violation"} ) =>
         /\ calls[c].result.t = "row"
         /\ \E p \in properties : p.id = calls[c].result.id

\* C7: every relation and column a statement of the six functions names is
\* defined by the DDL, and no call ends with an undefined-table or
\* undefined-column error.
C7_StatementsMatchSchema ==
  \A c \in Slots :
    /\ calls[c].err \notin {"undefined_table", "undefined_column"}
    /\ calls[c].pc # "idle" =>
         /\ calls[c].stmt.tables \subseteq {"users", "properties", "reservations"}
         /\ \A tc \in calls[c].stmt.columns : tc[2] \in SchemaColumns[tc[1]]

LookingUp(c) == calls[c].fn \in {"getUserWithEmail", "getUserWithId"}

\* The rows of users a lookup asks for.
Asked(c) ==
  IF calls[c].fn = "getUserWithEmail"
  THEN {u \in users : u.email = calls[c].arg.s}
  ELSE {u \in users : u.id = calls[c].arg.n}

AsObject(u) ==
  [t |-> "row", id |-> u.id, name |-> u.name, email |-> u.email,
   password |-> u.password]

\* A lookup that settles in this step yields the row asked for, or null when
\* there is none, and the row addUser returned while that row is in the table.
LookupAgrees(c) ==
  /\ Asked(c) = {} => calls'[c].result = [t |-> "null"]
  /\ Asked(c) # {} => \E u \in Asked(c) : calls'[c].result = AsObject(u)
  /\ \A d \in Slots :
       ( /\ calls[d].fn = "addUser"
         /\ calls[d].pc = "fulfilled"
         /\ calls[d].result.t = "row"
         /\ \E u \in users : u.id = calls[d].result.id
         /\ \/ calls[c].fn = "getUserWithEmail" /\ calls[c].arg = calls[d].arg.email
            \/ calls[c].fn = "getUserWithId" /\ calls[c].arg.n = calls[d].result.id ) =>
         calls'[c].result = calls[d].result

\* addUser returns the row it stored, with the fields it was given; a stored
\* row stays as it is until a DELETE of that user; lookups leave the table
\* alone.
CreationAgrees ==
  /\ \A c \in Slots :
       (Settling(c) /\ calls[c].fn = "addUser" /\ calls'[c].result.t = "row") =>
         /\ calls'[c].result.name = calls[c].arg.name.s
         /\ calls'[c].result.email = calls[c].arg.email.s
         /\ calls'[c].result.password = calls[c].arg.password.s
         /\ \A u \in users : u.id # calls'[c].result.id
         /\ \E u \in users' : calls'[c].result = AsObject(u)
  /\ \A u \in users : u \notin users' => SqlDeleteUser(u.id)
  /\ \A c \in Slots : (Settling(c) /\ LookingUp(c)) => users' = users

\* C8 as stated: every lookup resolves to the row asked for, or to null if
\* there is no such row.
C8_LookupAgreesAlways ==
  [][ /\ CreationAgrees
      /\ \A c \in Slots : (Settling(c) /\ LookingUp(c)) => LookupAgrees(c) ]_vars

\* C8, amended: every lookup whose pool.query is not rejected resolves to the
\* row asked for, or to null if there is no such row; after addUser resolved
\* to a row r, getUserWithEmail(r.email) and getUserWithId(r.id) resolve to r
\* (the name, email and password passed in) until that user is deleted;
\* lookups do not modify the users table.  A lookup whose pool.query is
\* rejected resolves to null whatever the table holds.
C8_LookupAgrees ==
  [][ /\ CreationAgrees
      /\ \A c \in Slots :
           (Settling(c) /\ LookingUp(c)) =>
             IF calls'[c].err = "none" THEN LookupAgrees(c)
             ELSE calls'[c].result = [t |-> "null"] ]_vars

\* addUser has returned a row, and a lookup by its email has returned the
\* same row.
C8_Witness ==
  \E c, d \in Slots :
    /\ calls[d].fn = "addUser" /\ calls[d].pc = "fulfilled"
    /\ calls[d].result.t = "row"
    /\ calls[c].fn = "getUserWithEmail" /\ calls[c].pc = "fulfilled"
    /\ calls[c].arg = calls[d].arg.email
    /\ calls[c].result = calls[d].result
    /\ calls[c].result.name = calls[d].arg.name.s

Injective(f) == \A i, j \in DOMAIN f : f[i] = f[j] => i = j

====
